---- MODULE Spec2Model ----
(***************************************************************************)
(* Model of the two Lambda handlers of AWS_Lambda_poison_pill_demo:        *)
(*   - dynodb_data_validate_with_dlq.lambda_handler (the batch validator), *)
(*   - s3_to_dynodb.lambda_handler (the object-to-table copier).           *)
(* Each handler is a sequential program; one action models one statement   *)
(* (or one loop step) of it.  An option value is a sequence of length 0/1. *)
(***************************************************************************)
EXTENDS Integers, Sequences, FiniteSets, TLC

\* ---------------------------------------------------------------- bounds
\* Longest batch delivered to a validator invocation that runs alone.
MaxLen == 3
\* Longest batch delivered to each of the concurrently running invocations.
ConcLen == 2
\* Longest record sequence stored in an object read by the copier.
MaxRecords == 2
\* How many times the platform delivers the notification of the same object.
MaxDeliveries == 2

\* ------------------------------------------------------- validator inputs
\* The execution environments the platform may run the validator in.
Invocations == {"inv1", "inv2"}

\* Attribute names a NewImage of the change feed may carry.
Attrs == {"id", "value"}

\* DynamoDB-JSON tagged values ({"S": "..."}).
TaggedValues == {[S |-> "1"], [S |-> "2"], [S |-> "x"]}

\* The tagged values an attribute takes in the modelled inputs.
AttrValues(a) == IF a = "id" THEN {[S |-> "1"], [S |-> "2"]} ELSE {[S |-> "x"]}

\* Every NewImage: a mapping from a subset of the attribute names to tagged values.
Images ==
  UNION {{im \in [D -> TaggedValues] : \A a \in D : im[a] \in AttrValues(a)} : D \in SUBSET Attrs}

\* One stream record: record['dynamodb']['NewImage'].
StreamRecords == {[dynamodb |-> [NewImage |-> im]] : im \in Images}

\* All sequences over S of length at most n.
SeqsUpTo(S, n) == UNION {[1..k -> S] : k \in 0..n}

\* The events (event['Records']) with at most n records.
Events(n) == {[Records |-> rs] : rs \in SeqsUpTo(StreamRecords, n)}

\* statusCode of the success result.
StatusOK == 200

VARIABLES
  event,      \* validator: event[i], the event of invocation i
  pc,         \* validator: pc[i], the statement invocation i is at
  idx,        \* validator: idx[i], position of the loop variable `record` (0 before the loop)
  stdout,     \* validator: stdout[i], the lines printed by invocation i
  result,     \* validator: result[i], <<>> or <<the returned value>>
  error,      \* validator: error[i], <<>> or <<the exception that left the handler>>
  object,     \* copier: the parsed content of the notified S3 object
  table,      \* copier: the DynamoDB table, the set of stored items
  puts,       \* copier: puts[d], the successful put_item calls of delivery d
  cpc,        \* copier: the statement the handler is at
  cidx,       \* copier: position of the loop variable `record`
  cresult,    \* copier: <<>> or <<the returned value>>
  cerror,     \* copier: <<>> or <<the exception that left the handler>>
  deliveries  \* copier: number of deliveries of the notification so far

vvars == <<event, pc, idx, stdout, result, error>>
cvars == <<object, table, puts, cpc, cidx, cresult, cerror, deliveries>>
vars == <<event, pc, idx, stdout, result, error,
          object, table, puts, cpc, cidx, cresult, cerror, deliveries>>

\* ------------------------------------------------------------- validator
\* record = event['Records'][idx]; new_image = record['dynamodb']['NewImage']
NewImage(i) == event[i].Records[idx[i]].dynamodb.NewImage

\* print("Received records:", json.dumps(event))
Receive(i) ==
  /\ pc[i] = "Receive"
  /\ stdout' = [stdout EXCEPT ![i] = Append(@, [line |-> "Received records:", arg |-> event[i]])]
  /\ pc' = [pc EXCEPT ![i] = "Loop"]
  /\ UNCHANGED <<event, idx, result, error>>

\* for record in event['Records']: new_image = ...; print("Processing record:", new_image)
Fetch(i) ==
  /\ pc[i] = "Loop"
  /\ idx[i] < Len(event[i].Records)
  /\ idx' = [idx EXCEPT ![i] = @ + 1]
  /\ stdout' = [stdout EXCEPT ![i] =
       Append(@, [line |-> "Processing record:",
                  arg |-> event[i].Records[idx[i] + 1].dynamodb.NewImage])]
  /\ pc' = [pc EXCEPT ![i] = "Check"]
  /\ UNCHANGED <<event, result, error>>

\* Mutant: a batch without records is rejected.
LoopExit_RejectEmpty(i) ==
  /\ pc[i] = "Loop"
  /\ idx[i] >= Len(event[i].Records)
  /\ IF Len(event[i].Records) = 0
     THEN /\ error' = [error EXCEPT ![i] =
               <<[type |-> "Exception", msg |-> "Empty batch", arg |-> <<>>]>>]
          /\ pc' = [pc EXCEPT ![i] = "Done"]
     ELSE /\ error' = error
          /\ pc' = [pc EXCEPT ![i] = "Return"]
  /\ UNCHANGED <<event, idx, stdout, result>>

\* the for loop is exhausted
LoopExit(i) ==
  /\ pc[i] = "Loop"
  /\ idx[i] >= Len(event[i].Records)
  /\ pc' = [pc EXCEPT ![i] = "Return"]
  /\ UNCHANGED <<event, idx, stdout, result, error>>

\* if 'value' not in new_image
IsMalformed(im) == "value" \notin DOMAIN im

\* Mutant: the malformed entry is skipped and the loop goes on.
RaiseMalformed_Skip(i) ==
  /\ pc[i] = "Check"
  /\ IsMalformed(NewImage(i))
  /\ pc' = [pc EXCEPT ![i] = "Loop"]
  /\ UNCHANGED <<event, idx, stdout, result, error>>

\* Mutant: the error is raised after a success result was stored for the entries before it.
RaiseMalformed_PartialAck(i) ==
  /\ pc[i] = "Check"
  /\ IsMalformed(NewImage(i))
  /\ error' = [error EXCEPT ![i] =
       <<[type |-> "Exception", msg |-> "Malformed record detected", arg |-> NewImage(i)]>>]
  /\ result' = [result EXCEPT ![i] = <<[statusCode |-> StatusOK]>>]
  /\ pc' = [pc EXCEPT ![i] = "Done"]
  /\ UNCHANGED <<event, idx, stdout>>

\* raise Exception(f"Malformed record detected: {new_image}")
RaiseMalformed(i) ==
  /\ pc[i] = "Check"
  /\ IsMalformed(NewImage(i))
  /\ error' = [error EXCEPT ![i] =
       <<[type |-> "Exception", msg |-> "Malformed record detected", arg |-> NewImage(i)]>>]
  /\ pc' = [pc EXCEPT ![i] = "Done"]
  /\ UNCHANGED <<event, idx, stdout, result>>

\* the 'value' test passes
CheckPass(i) ==
  /\ pc[i] = "Check"
  /\ ~IsMalformed(NewImage(i))
  /\ pc' = [pc EXCEPT ![i] = "Report"]
  /\ UNCHANGED <<event, idx, stdout, result, error>>

\* new_image['id']['S'] is defined
HasStringId(im) == "id" \in DOMAIN im /\ "S" \in DOMAIN im["id"]

\* Mutant: the success line goes to a log buffer shared by all invocations.
Report_SharedLog(i) ==
  /\ pc[i] = "Report"
  /\ HasStringId(NewImage(i))
  /\ stdout' = [j \in Invocations |->
       Append(stdout[j], [line |-> "Successfully processed record with id:",
                          arg |-> NewImage(i)["id"]["S"]])]
  /\ pc' = [pc EXCEPT ![i] = "Loop"]
  /\ UNCHANGED <<event, idx, result, error>>

\* print(f"Successfully processed record with id: {new_image['id']['S']}")
Report(i) ==
  /\ pc[i] = "Report"
  /\ HasStringId(NewImage(i))
  /\ stdout' = [stdout EXCEPT ![i] =
       Append(@, [line |-> "Successfully processed record with id:", arg |-> NewImage(i)["id"]["S"]])]
  /\ pc' = [pc EXCEPT ![i] = "Loop"]
  /\ UNCHANGED <<event, idx, result, error>>

\* new_image['id']['S'] raises KeyError, which leaves the handler
ReportKeyError(i) ==
  /\ pc[i] = "Report"
  /\ ~HasStringId(NewImage(i))
  /\ error' = [error EXCEPT ![i] =
       <<[type |-> "KeyError", msg |-> "", arg |-> [key |-> "id"]]>>]
  /\ pc' = [pc EXCEPT ![i] = "Done"]
  /\ UNCHANGED <<event, idx, stdout, result>>

\* Mutant: the result is stored but the handler goes back to the loop instead of returning.
Return_Restart(i) ==
  /\ pc[i] = "Return"
  /\ result' = [result EXCEPT ![i] = <<[statusCode |-> StatusOK]>>]
  /\ pc' = [pc EXCEPT ![i] = "Loop"]
  /\ UNCHANGED <<event, idx, stdout, error>>

\* return {'statusCode': 200}
Return(i) ==
  /\ pc[i] = "Return"
  /\ result' = [result EXCEPT ![i] = <<[statusCode |-> StatusOK]>>]
  /\ pc' = [pc EXCEPT ![i] = "Done"]
  /\ UNCHANGED <<event, idx, stdout, error>>

\* One step of invocation i.
Step(i) ==
  \/ Receive(i)
  \/ Fetch(i)
  \/ LoopExit(i)
  \/ RaiseMalformed(i)
  \/ CheckPass(i)
  \/ Report(i)
  \/ ReportKeyError(i)
  \/ Return(i)

\* The platform has invoked the handler in the environments of `running`, each
\* with an event of at most n records; the other environments stay idle.
InitValidator(running, n) ==
  /\ event \in [Invocations -> Events(n)]
  /\ \A i \in Invocations \ running : event[i] = [Records |-> <<>>]
  /\ pc = [i \in Invocations |-> IF i \in running THEN "Receive" ELSE "Idle"]
  /\ idx = [i \in Invocations |-> 0]
  /\ stdout = [i \in Invocations |-> <<>>]
  /\ result = [i \in Invocations |-> <<>>]
  /\ error = [i \in Invocations |-> <<>>]

\* The copier is not invoked.
CopierIdle ==
  /\ object = <<>>
  /\ table = {}
  /\ puts = <<>>
  /\ cpc = "Idle"
  /\ cidx = 0
  /\ cresult = <<>>
  /\ cerror = <<>>
  /\ deliveries = 0

Init == InitValidator({"inv1"}, MaxLen) /\ CopierIdle

Next ==
  \/ \E i \in Invocations : Receive(i) /\ UNCHANGED cvars
  \/ \E i \in Invocations : Fetch(i) /\ UNCHANGED cvars
  \/ \E i \in Invocations : LoopExit(i) /\ UNCHANGED cvars
  \/ \E i \in Invocations : RaiseMalformed(i) /\ UNCHANGED cvars
  \/ \E i \in Invocations : CheckPass(i) /\ UNCHANGED cvars
  \/ \E i \in Invocations : Report(i) /\ UNCHANGED cvars
  \/ \E i \in Invocations : ReportKeyError(i) /\ UNCHANGED cvars
  \/ \E i \in Invocations : Return(i) /\ UNCHANGED cvars

\* One invocation alone on a batch of at most MaxLen entries.
Spec == Init /\ [][Next]_vars

\* One invocation alone, run to completion by the interpreter: no statement of
\* the synchronous handler waits, so every enabled step is eventually taken.
FairSpec == Spec /\ \A i \in Invocations : WF_vars(Step(i) /\ UNCHANGED cvars)

InitConc == InitValidator(Invocations, ConcLen) /\ CopierIdle

\* Every environment runs an invocation, the steps interleave freely.
SpecConc == InitConc /\ [][Next]_vars

\* The handler run from the top of the loop body for position k, as one
\* sequential computation: what it prints, returns and raises.
RECURSIVE LoopFrom(_, _, _)
LoopFrom(ev, k, out) ==
  IF k > Len(ev.Records)
  THEN [result |-> <<[statusCode |-> StatusOK]>>, error |-> <<>>, stdout |-> out]
  ELSE LET im == ev.Records[k].dynamodb.NewImage
           out1 == Append(out, [line |-> "Processing record:", arg |-> im])
       IN IF IsMalformed(im)
          THEN [result |-> <<>>,
                error |-> <<[type |-> "Exception", msg |-> "Malformed record detected", arg |-> im]>>,
                stdout |-> out1]
          ELSE IF ~HasStringId(im)
          THEN [result |-> <<>>,
                error |-> <<[type |-> "KeyError", msg |-> "", arg |-> [key |-> "id"]]>>,
                stdout |-> out1]
          ELSE LoopFrom(ev, k + 1,
                 Append(out1, [line |-> "Successfully processed record with id:",
                               arg |-> im["id"]["S"]]))

\* lambda_handler(event, context) run alone.
RunAlone(ev) == LoopFrom(ev, 1, <<[line |-> "Received records:", arg |-> ev]>>)

\* ------------------------------------------------- validator: observations
Batch(i) == event[i].Records
ImageAt(i, k) == Batch(i)[k].dynamodb.NewImage
MalformedAt(i) == {k \in 1..Len(Batch(i)) : IsMalformed(ImageAt(i, k))}
FirstMalformed(i) == CHOOSE k \in MalformedAt(i) : \A m \in MalformedAt(i) : k <= m
IsSuccessLine(l) == l.line = "Successfully processed record with id:"
IsProcessingLine(l) == l.line = "Processing record:"
SuccessLines(i) == SelectSeq(stdout[i], IsSuccessLine)
ProcessingLines(i) == SelectSeq(stdout[i], IsProcessingLine)
\* The ids the invocation has reported, in the order it printed them.
ReportedIds(i) == [k \in 1..Len(SuccessLines(i)) |-> SuccessLines(i)[k].arg]
\* The ids of the first n entries of the batch.
IdOf(im) == IF HasStringId(im) THEN im["id"]["S"] ELSE "(no id)"
IdsOfFirst(i, n) == [k \in 1..n |-> IdOf(ImageAt(i, k))]
Done(i) == pc[i] = "Done"
Accepted(i) == Done(i) /\ result[i] = <<[statusCode |-> StatusOK]>> /\ error[i] = <<>>
Failed(i) == Done(i) /\ result[i] = <<>> /\ Len(error[i]) = 1
RaisedMalformed(i) ==
  /\ Len(error[i]) = 1
  /\ error[i][1].type = "Exception"
  /\ error[i][1].msg = "Malformed record detected"
\* The validation pass with every print statement deleted: only the 'value' test is left.
OutcomeWithoutLog(i) == IF MalformedAt(i) = {} THEN "Accepted" ELSE "MalformedEntry"
Outcome(i) ==
  IF Accepted(i) THEN "Accepted"
  ELSE IF RaisedMalformed(i) THEN "MalformedEntry"
  ELSE "OtherError"

\* ------------------------------------------------------ validator: claims
\* C1: for every batch in which every entry's NewImage contains 'value', the
\* handler returns statusCode 200 and has reported the id of each entry, once
\* each and in batch order.
C1_AllValidAccepted ==
  \A i \in Invocations :
    (Done(i) /\ MalformedAt(i) = {}) =>
      /\ Accepted(i)
      /\ ReportedIds(i) = IdsOfFirst(i, Len(Batch(i)))

\* C2: for every batch with at least one entry lacking 'value', the handler
\* ends by raising "Malformed record detected" and returns no success result.
C2_MalformedBatchRaises ==
  \A i \in Invocations :
    (Done(i) /\ MalformedAt(i) # {}) => (RaisedMalformed(i) /\ result[i] = <<>>)

\* C3: the "Malformed record detected" error carries the NewImage of the first
\* malformed entry in batch order, and no entry after that first malformed
\* entry is ever fetched, checked or reported.
C3_FirstMalformedReported ==
  \A i \in Invocations :
    /\ RaisedMalformed(i) => MalformedAt(i) # {}
    /\ MalformedAt(i) # {} =>
         /\ idx[i] <= FirstMalformed(i)
         /\ Len(ProcessingLines(i)) <= FirstMalformed(i)
         /\ Len(ReportedIds(i)) < FirstMalformed(i)
         /\ RaisedMalformed(i) =>
              /\ error[i][1].arg = ImageAt(i, FirstMalformed(i))
              /\ idx[i] = FirstMalformed(i)

C3_Witness ==
  \E i \in Invocations :
    /\ Done(i) /\ RaisedMalformed(i)
    /\ Len(Batch(i)) = 3
    /\ MalformedAt(i) = {2, 3}
    /\ ImageAt(i, 2) # ImageAt(i, 3)

\* C4 as claimed: when the invocation fails, no entry of the batch has been
\* reported as processed.
C4_NothingReportedOnFailure ==
  \A i \in Invocations : Failed(i) => ReportedIds(i) = <<>>

\* C4 amended: an invocation ends either accepted (success result, no error,
\* every entry reported) or failed (an error, no success result), never both;
\* when it fails, exactly the ids of the entries before the one that failed
\* have been reported.
C4_AllOrNothingResult ==
  \A i \in Invocations :
    Done(i) =>
      \/ /\ Accepted(i)
         /\ idx[i] = Len(Batch(i))
         /\ ReportedIds(i) = IdsOfFirst(i, Len(Batch(i)))
      \/ /\ Failed(i)
         /\ idx[i] >= 1
         /\ ReportedIds(i) = IdsOfFirst(i, idx[i] - 1)

C4_Witness ==
  \E i \in Invocations : Failed(i) /\ Len(ReportedIds(i)) = 2

\* C5: the outcome of the handler is the outcome of the same validation with
\* the log emission removed: it depends only on which entries contain 'value'.
C5_LoggingIsObservational ==
  \A i \in Invocations : Done(i) => Outcome(i) = OutcomeWithoutLog(i)

\* C6: an empty batch is accepted: statusCode 200, no error, nothing reported.
C6_EmptyBatchAccepted ==
  \A i \in Invocations :
    (Batch(i) = <<>> /\ pc[i] # "Idle") =>
      /\ error[i] = <<>>
      /\ ReportedIds(i) = <<>>
      /\ ProcessingLines(i) = <<>>
      /\ Done(i) => Accepted(i)

C6_Witness ==
  \E i \in Invocations : Batch(i) = <<>> /\ Accepted(i) /\ Len(stdout[i]) = 1

\* C7: every invocation started on a finite batch eventually reaches Done,
\* which is exactly one of Accepted and Failed, and takes no step after Done.
C7_ReachesDone ==
  /\ \A i \in Invocations : (pc[i] = "Receive") ~> Done(i)
  /\ [](\A i \in Invocations : Done(i) => (Accepted(i) /\ ~Failed(i)) \/ (Failed(i) /\ ~Accepted(i)))
  /\ [][\A i \in Invocations :
          Done(i) => /\ pc'[i] = "Done"
                     /\ <<event'[i], idx'[i], stdout'[i], result'[i], error'[i]>>
                          = <<event[i], idx[i], stdout[i], result[i], error[i]>>]_vars

C7_Witness ==
  \E i \in Invocations : Done(i) /\ Len(Batch(i)) = 3 /\ Len(stdout[i]) = 7

\* C8: whatever the interleaving, a finished invocation has printed, returned
\* and raised exactly what the handler run alone on its event does; an
\* unfinished one has printed a prefix of it.
C8_InvocationsIndependent ==
  \A i \in Invocations :
    /\ Len(stdout[i]) <= Len(RunAlone(event[i]).stdout)
    /\ stdout[i] = SubSeq(RunAlone(event[i]).stdout, 1, Len(stdout[i]))
    /\ Done(i) =>
         /\ result[i] = RunAlone(event[i]).result
         /\ error[i] = RunAlone(event[i]).error
         /\ stdout[i] = RunAlone(event[i]).stdout

C8_Witness ==
  /\ Accepted("inv1") /\ Len(ReportedIds("inv1")) = 2
  /\ Failed("inv2") /\ Len(ReportedIds("inv2")) = 1
  /\ event["inv1"] # event["inv2"]

\* ----------------------------------------------------------------- copier
\* The flat records an object may hold; `id` is the key attribute of the table.
Items == [id : {"1", "2"}, val : {"a", "b"}]

\* statusCode of the copier's success result.
CopierStatusOK == 200

\* table = dynamodb.Table("dynotbl_1"): the one table every write goes to.
TableName == "dynotbl_1"

\* put_item on a table keyed by `id`: the item replaces the stored item of the same key.
Upsert(t, item) == {x \in t : x.id # item.id} \cup {item}

\* The put_item calls of the delivery in progress (or of the last one).
CurrentPuts == puts[deliveries]

\* The platform invokes lambda_handler with the notification of the object.
Deliver ==
  /\ cpc \in {"Idle", "Done"}
  /\ deliveries < MaxDeliveries
  /\ deliveries' = deliveries + 1
  /\ puts' = Append(puts, <<>>)
  /\ cpc' = "Receive"
  /\ cidx' = 0
  /\ cresult' = <<>>
  /\ cerror' = <<>>
  /\ UNCHANGED <<object, table>>

\* print("Received event:", ...); bucket = ...; key = ...
CReceive ==
  /\ cpc = "Receive"
  /\ cpc' = "Get"
  /\ UNCHANGED <<object, table, puts, cidx, cresult, cerror, deliveries>>

\* response = s3.get_object(...); content = response['Body'].read(); records = json.loads(content)
GetObject ==
  /\ cpc = "Get"
  /\ cpc' = "Loop"
  /\ UNCHANGED <<object, table, puts, cidx, cresult, cerror, deliveries>>

\* s3.get_object raises (the service refuses or is unreachable)
GetObjectFail ==
  /\ cpc = "Get"
  /\ cerror' = <<[type |-> "ClientError", op |-> "get_object"]>>
  /\ cpc' = "Done"
  /\ UNCHANGED <<object, table, puts, cidx, cresult, deliveries>>

\* for record in records: print("Inserting record:", record)
CFetch ==
  /\ cpc = "Loop"
  /\ cidx < Len(object)
  /\ cidx' = cidx + 1
  /\ cpc' = "Put"
  /\ UNCHANGED <<object, table, puts, cresult, cerror, deliveries>>

\* the for loop is exhausted
CLoopExit ==
  /\ cpc = "Loop"
  /\ cidx >= Len(object)
  /\ cpc' = "Return"
  /\ UNCHANGED <<object, table, puts, cidx, cresult, cerror, deliveries>>

\* Mutant: an item the table already stores is not written again.
PutItem_SkipStored ==
  /\ cpc = "Put"
  /\ IF object[cidx] \in table
     THEN UNCHANGED <<table, puts>>
     ELSE /\ table' = Upsert(table, object[cidx])
          /\ puts' = [puts EXCEPT ![deliveries] =
               Append(@, [TableName |-> TableName, Item |-> object[cidx]])]
  /\ cpc' = "Loop"
  /\ UNCHANGED <<object, cidx, cresult, cerror, deliveries>>

\* table.put_item(Item=record) succeeds
PutItem ==
  /\ cpc = "Put"
  /\ table' = Upsert(table, object[cidx])
  /\ puts' = [puts EXCEPT ![deliveries] = Append(@, [TableName |-> TableName, Item |-> object[cidx]])]
  /\ cpc' = "Loop"
  /\ UNCHANGED <<object, cidx, cresult, cerror, deliveries>>

\* Mutant: on a failed write the items this delivery wrote are deleted again.
PutItemFail_Rollback ==
  /\ cpc = "Put"
  /\ cerror' = <<[type |-> "ClientError", op |-> "put_item"]>>
  /\ table' = {x \in table : \A k \in 1..Len(CurrentPuts) : CurrentPuts[k].Item # x}
  /\ cpc' = "Done"
  /\ UNCHANGED <<object, puts, cidx, cresult, deliveries>>

\* table.put_item(Item=record) raises: the write is not applied, the error leaves the handler
PutItemFail ==
  /\ cpc = "Put"
  /\ cerror' = <<[type |-> "ClientError", op |-> "put_item"]>>
  /\ cpc' = "Done"
  /\ UNCHANGED <<object, table, puts, cidx, cresult, deliveries>>

\* return {'statusCode': 200, 'body': 'Data inserted into DynamoDB'}
CReturn ==
  /\ cpc = "Return"
  /\ cresult' = <<[statusCode |-> CopierStatusOK, body |-> "Data inserted into DynamoDB"]>>
  /\ cpc' = "Done"
  /\ UNCHANGED <<object, table, puts, cidx, cerror, deliveries>>

\* The validator is not invoked; the object holds at most MaxRecords records
\* and the table is empty.
InitCopier ==
  /\ InitValidator({}, 0)
  /\ object \in SeqsUpTo(Items, MaxRecords)
  /\ table = {}
  /\ puts = <<>>
  /\ cpc = "Idle"
  /\ cidx = 0
  /\ cresult = <<>>
  /\ cerror = <<>>
  /\ deliveries = 0

NextCopier ==
  \/ Deliver /\ UNCHANGED vvars
  \/ CReceive /\ UNCHANGED vvars
  \/ GetObject /\ UNCHANGED vvars
  \/ GetObjectFail /\ UNCHANGED vvars
  \/ CFetch /\ UNCHANGED vvars
  \/ CLoopExit /\ UNCHANGED vvars
  \/ PutItem /\ UNCHANGED vvars
  \/ PutItemFail /\ UNCHANGED vvars
  \/ CReturn /\ UNCHANGED vvars

\* The copier, delivered the notification of one object up to MaxDeliveries times.
SpecCopier == InitCopier /\ [][NextCopier]_vars

\* ---------------------------------------------------- copier: observations
\* The put_item requests the records 1..n of the object make, in order.
PutsOfFirst(n) == [k \in 1..n |-> [TableName |-> TableName, Item |-> object[k]]]
\* The table that results from applying the writes ws, in order, to t.
RECURSIVE ApplyPuts(_, _)
ApplyPuts(t, ws) ==
  IF ws = <<>> THEN t ELSE ApplyPuts(Upsert(t, Head(ws).Item), Tail(ws))
\* All put_item calls of the deliveries 1..d, in order.
RECURSIVE PutsUpTo(_)
PutsUpTo(d) == IF d = 0 THEN <<>> ELSE PutsUpTo(d - 1) \o puts[d]
CSucceeded == cresult = <<[statusCode |-> CopierStatusOK, body |-> "Data inserted into DynamoDB"]>>
PutFailed == cpc = "Done" /\ cerror = <<[type |-> "ClientError", op |-> "put_item"]>>

\* --------------------------------------------------------- copier: claims
\* C9: a delivery writes the records of the object one put_item each, in
\* sequence order, into the fixed table; it returns {200, 'Data inserted into
\* DynamoDB'} only after all n writes, and a delivery that no service error
\* interrupts ends with that result; a second delivery of the same object
\* performs the n writes again.
C9_OneWritePerRecord ==
  deliveries >= 1 =>
    /\ Len(CurrentPuts) <= Len(object)
    /\ CurrentPuts = PutsOfFirst(Len(CurrentPuts))
    /\ cresult # <<>> => (CSucceeded /\ cpc = "Done" /\ CurrentPuts = PutsOfFirst(Len(object)))
    /\ (cpc = "Done" /\ cerror = <<>>) => CSucceeded
    /\ (CSucceeded /\ deliveries = 2 /\ Len(puts[1]) = Len(object)) =>
         PutsUpTo(2) = PutsOfFirst(Len(object)) \o PutsOfFirst(Len(object))

C9_Witness ==
  /\ deliveries = 2
  /\ CSucceeded
  /\ Len(object) = 2
  /\ object[1] # object[2]
  /\ Len(PutsUpTo(2)) = 4

\* C10: when the put_item of record k fails, the error leaves the handler and
\* no result is returned, the writes of records 1..k-1 stay applied to the
\* table (no rollback) and no record after k-1 is written.
C10_NoRollback ==
  PutFailed =>
    /\ cresult = <<>>
    /\ cidx >= 1
    /\ CurrentPuts = PutsOfFirst(cidx - 1)
    /\ table = ApplyPuts({}, PutsUpTo(deliveries))
    /\ \A j \in 1..(cidx - 1) : \E x \in table : x.id = object[j].id
    /\ deliveries = 1 => \A x \in table : \E j \in 1..(cidx - 1) : x = object[j]

C10_Witness ==
  /\ PutFailed
  /\ deliveries = 1
  /\ Len(object) = 2
  /\ cidx = 2
  /\ table = {object[1]}
  /\ object[1].id # object[2].id

====
